---- MODULE Spec2Model ----
(***************************************************************************)
(* Paint-Application: the three LayerStore variants (layer_store.py), the  *)
(* Grid of stores (grid.py) and the ReplayTracker (replay.py).             *)
(*                                                                         *)
(* Every method is a pure operator from the object's state (and the        *)
(* arguments) to a record holding the new state, the value returned and    *)
(* whether an exception left the method.  The actions below call them.     *)
(***************************************************************************)
EXTENDS Integers, Sequences, FiniteSets, TLC

(***************************************************************************)
(* Bounds of the model.                                                    *)
(***************************************************************************)
\* len(get_layers()): the size of the layer catalog.
NumLayers == 4
\* Stands for the factor 100 of CircularQueue(len(get_layers()) * 100).
LayersPerEntry == 1
\* Stands for the 11000 of CircularQueue(11000).
ReplayCapacity == 2
\* Dimensions of the grids.
GridX == 1
GridY == 2
\* Timestamps handed to get_color range over 0..MaxTimestamp.
MaxTimestamp == 1
\* Start colours handed to get_color range over 0..MaxStart.
MaxStart == 1
\* Calls that change a cell (add, erase, special) made on a grid in all.
MaxCellCalls == 3
\* add_action calls made on a tracker in all.
MaxCalls == 3

(***************************************************************************)
(* Python values.                                                          *)
(***************************************************************************)
None == [none |-> TRUE]

Min(a, b) == IF a < b THEN a ELSE b

Max(a, b) == IF a > b THEN a ELSE b

(***************************************************************************)
(* The layer catalog (layer_util.py and layers.py).  A Layer is            *)
(* {index, name, apply}.  Names are spelled as letter numbers (a = 1), so  *)
(* that they can be compared as strings are.  apply is opaque: a colour is *)
(* the start colour followed by the applications made to it, so any two    *)
(* different orders or sets of applications give different colours.        *)
(***************************************************************************)
LayerNames ==
    << <<18, 1, 9, 14, 2, 15, 23>>,     \* rainbow
       <<2, 12, 1, 3, 11>>,             \* black
       <<12, 9, 7, 8, 20, 5, 14>>,      \* lighten
       <<9, 14, 22, 5, 18, 20>>,        \* invert
       <<18, 5, 4>>,                    \* red
       <<2, 12, 21, 5>>,                \* blue
       <<7, 18, 5, 5, 14>>,             \* green
       <<4, 1, 18, 11, 5, 14>>,         \* darken
       <<19, 16, 1, 18, 11, 12, 5>> >>  \* sparkle

Layer(i) == [index |-> i, name |-> LayerNames[i + 1]]

get_layers == [i \in 1..NumLayers |-> Layer(i - 1)]

Layers == {get_layers[i] : i \in 1..NumLayers}

invert == Layer(3)

apply(layer, colour, timestamp, x, y) ==
    Append(colour, <<layer.index, timestamp, x, y>>)

\* Start colours, timestamps and positions given to get_color.
StartColours == {<< <<s>> >> : s \in 0..MaxStart}

Timestamps == 0..MaxTimestamp

\* The positions of the two corner cells of the grid.
Positions == {<<0, 0>>, <<GridX - 1, GridY - 1>>}

(***************************************************************************)
(* data_structures: the bounded FIFO, the bounded LIFO, the index set and  *)
(* the sorted list, by the interface the stores use.                       *)
(***************************************************************************)
CircularQueue(max_capacity) == [items |-> <<>>, capacity |-> max_capacity]

Queue_len(q) == Len(q.items)

Queue_is_full(q) == Len(q.items) = q.capacity

Queue_is_empty(q) == Len(q.items) = 0

\* append raises when the queue is full.
Queue_append(q, item) ==
    IF Queue_is_full(q)
    THEN [queue |-> q, raised |-> TRUE]
    ELSE [queue |-> [q EXCEPT !.items = Append(@, item)], raised |-> FALSE]

\* serve raises when the queue is empty.
Queue_serve(q) ==
    IF Queue_is_empty(q)
    THEN [queue |-> q, item |-> None, raised |-> TRUE]
    ELSE [queue |-> [q EXCEPT !.items = Tail(@)], item |-> Head(q.items),
          raised |-> FALSE]

Queue_clear(q) == [q EXCEPT !.items = <<>>]

ArrayStack(max_capacity) == [items |-> <<>>, capacity |-> max_capacity]

Stack_is_empty(s) == Len(s.items) = 0

Stack_push(s, item) ==
    IF Len(s.items) = s.capacity
    THEN [stack |-> s, raised |-> TRUE]
    ELSE [stack |-> [s EXCEPT !.items = Append(@, item)], raised |-> FALSE]

Stack_pop(s) ==
    IF Stack_is_empty(s)
    THEN [stack |-> s, item |-> None, raised |-> TRUE]
    ELSE [stack |-> [s EXCEPT !.items = SubSeq(@, 1, Len(@) - 1)],
          item |-> s.items[Len(s.items)], raised |-> FALSE]

BSet == {}

BSet_contains(s, index) == index \in s

BSet_add(s, index) == s \cup {index}

\* remove raises when the index is absent.
BSet_remove(s, index) ==
    IF index \in s
    THEN [set |-> s \ {index}, raised |-> FALSE]
    ELSE [set |-> s, raised |-> TRUE]

\* a < b for two names, as Python compares strings.
RECURSIVE StrLess(_, _)
StrLess(a, b) ==
    IF Len(b) = 0 THEN FALSE
    ELSE IF Len(a) = 0 THEN TRUE
    ELSE IF Head(a) # Head(b) THEN Head(a) < Head(b)
    ELSE StrLess(Tail(a), Tail(b))

ListItem(value, key) == [value |-> value, key |-> key]

ArraySortedList == <<>>

\* add keeps the list ascending by key.
SortedList_add(list, item) ==
    LET before == SelectSeq(list, LAMBDA e : ~StrLess(item.key, e.key))
        after == SelectSeq(list, LAMBDA e : StrLess(item.key, e.key))
    IN  before \o <<item>> \o after

(***************************************************************************)
(* layer_store.py: SetLayerStore.                                          *)
(***************************************************************************)
SetLayerStore == [cls |-> "SetLayerStore", layer |-> None, on_special |-> FALSE]

\* A faulty add: the layers are compared after the new one is stored.
SetLayerStore_add_compares_late(self, layer) ==
    LET stored == [self EXCEPT !.layer = layer]
    IN  [store |-> stored, ret |-> layer # stored.layer, raised |-> FALSE]

SetLayerStore_add(self, layer) ==
    LET flag == layer # self.layer
    IN  [store |-> [self EXCEPT !.layer = layer], ret |-> flag, raised |-> FALSE]

SetLayerStore_get_color(self, start, timestamp, x, y) ==
    LET c1 == IF self.layer # None
              THEN apply(self.layer, start, timestamp, x, y)
              ELSE start
        c2 == IF self.on_special
              THEN apply(invert, c1, timestamp, x, y)
              ELSE c1
    IN  [store |-> self, ret |-> c2, raised |-> FALSE]

\* A faulty erase: only the layer given is removed.
SetLayerStore_erase_matching(self, layer) ==
    IF self.layer # layer
    THEN [store |-> self, ret |-> FALSE, raised |-> FALSE]
    ELSE [store |-> [self EXCEPT !.layer = None], ret |-> TRUE, raised |-> FALSE]

\* A faulty erase: removing the layer switches the special mode off.
SetLayerStore_erase_resets(self, layer) ==
    IF self.layer = None
    THEN [store |-> self, ret |-> FALSE, raised |-> FALSE]
    ELSE [store |-> [self EXCEPT !.layer = None, !.on_special = FALSE],
          ret |-> TRUE, raised |-> FALSE]

SetLayerStore_erase(self, layer) ==
    IF self.layer = None
    THEN [store |-> self, ret |-> FALSE, raised |-> FALSE]
    ELSE [store |-> [self EXCEPT !.layer = None], ret |-> TRUE, raised |-> FALSE]

\* A faulty special: the special mode is switched on, never off.
SetLayerStore_special_switches_on(self) ==
    [store |-> [self EXCEPT !.on_special = TRUE], ret |-> None, raised |-> FALSE]

SetLayerStore_special(self) ==
    [store |-> [self EXCEPT !.on_special = ~self.on_special], ret |-> None,
     raised |-> FALSE]

(***************************************************************************)
(* layer_store.py: AdditiveLayerStore.                                     *)
(***************************************************************************)
AdditiveLayerStore ==
    [cls |-> "AdditiveLayerStore",
     layers |-> CircularQueue(Len(get_layers) * LayersPerEntry)]

\* A faulty add: no is_full check, so append raises on a full queue.
AdditiveLayerStore_add_unchecked(self, layer) ==
    LET a == Queue_append(self.layers, layer)
    IN  [store |-> [self EXCEPT !.layers = a.queue], ret |-> TRUE,
         raised |-> a.raised]

AdditiveLayerStore_add(self, layer) ==
    IF Queue_is_full(self.layers)
    THEN [store |-> self, ret |-> FALSE, raised |-> FALSE]
    ELSE LET a == Queue_append(self.layers, layer)
         IN  [store |-> [self EXCEPT !.layers = a.queue], ret |-> TRUE,
              raised |-> a.raised]

\* A faulty loop body: the layer served is not appended back.
AdditiveLayerStore_get_color_body_drains(st, timestamp, x, y) ==
    LET s == Queue_serve(st.layers)
    IN  IF s.raised THEN [st EXCEPT !.raised = TRUE]
        ELSE [layers |-> s.queue,
              colour |-> apply(s.item, st.colour, timestamp, x, y),
              raised |-> FALSE]

\* One pass of the loop body: serve the oldest layer, append it back, apply it.
AdditiveLayerStore_get_color_body(st, timestamp, x, y) ==
    LET s == Queue_serve(st.layers)
        a == Queue_append(s.queue, s.item)
    IN  IF s.raised THEN [st EXCEPT !.raised = TRUE]
        ELSE IF a.raised THEN [st EXCEPT !.layers = s.queue, !.raised = TRUE]
        ELSE [layers |-> a.queue,
              colour |-> apply(s.item, st.colour, timestamp, x, y),
              raised |-> FALSE]

\* for i in range(n): the body, n times, unless an exception leaves the loop.
RECURSIVE AdditiveLayerStore_get_color_loop(_, _, _, _, _)
AdditiveLayerStore_get_color_loop(st, n, timestamp, x, y) ==
    IF n = 0 \/ st.raised THEN st
    ELSE AdditiveLayerStore_get_color_loop(
             AdditiveLayerStore_get_color_body(st, timestamp, x, y),
             n - 1, timestamp, x, y)

AdditiveLayerStore_get_color(self, start, timestamp, x, y) ==
    LET st == AdditiveLayerStore_get_color_loop(
                  [layers |-> self.layers, colour |-> start, raised |-> FALSE],
                  Queue_len(self.layers), timestamp, x, y)
    IN  [store |-> [self EXCEPT !.layers = st.layers], ret |-> st.colour,
         raised |-> st.raised]

\* A faulty erase: the layer given is removed only when it is the oldest.
AdditiveLayerStore_erase_matching(self, layer) ==
    LET s == Queue_serve(self.layers)
    IN  IF s.raised \/ s.item # layer
        THEN [store |-> self, ret |-> FALSE, raised |-> FALSE]
        ELSE [store |-> [self EXCEPT !.layers = s.queue], ret |-> TRUE,
              raised |-> FALSE]

AdditiveLayerStore_erase(self, layer) ==
    LET s == Queue_serve(self.layers)
    IN  IF s.raised
        THEN [store |-> self, ret |-> FALSE, raised |-> FALSE]
        ELSE [store |-> [self EXCEPT !.layers = s.queue], ret |-> TRUE,
              raised |-> FALSE]

\* while not self.layers.is_empty(): aux_stack.push(self.layers.serve())
RECURSIVE AdditiveLayerStore_special_drain(_)
AdditiveLayerStore_special_drain(st) ==
    IF Queue_is_empty(st.layers) \/ st.raised THEN st
    ELSE LET s == Queue_serve(st.layers)
             p == Stack_push(st.aux_stack, s.item)
         IN  AdditiveLayerStore_special_drain(
                 [layers |-> s.queue, aux_stack |-> p.stack,
                  raised |-> s.raised \/ p.raised])

\* A faulty refill: the auxiliary structure is emptied oldest first, as a
\* queue is, so the order is not reversed.
RECURSIVE AdditiveLayerStore_special_refill_fifo(_)
AdditiveLayerStore_special_refill_fifo(st) ==
    IF Stack_is_empty(st.aux_stack) \/ st.raised THEN st
    ELSE LET a == Queue_append(st.layers, Head(st.aux_stack.items))
         IN  AdditiveLayerStore_special_refill_fifo(
                 [layers |-> a.queue,
                  aux_stack |-> [st.aux_stack EXCEPT !.items = Tail(@)],
                  raised |-> a.raised])

\* while not aux_stack.is_empty(): self.layers.append(aux_stack.pop())
RECURSIVE AdditiveLayerStore_special_refill(_)
AdditiveLayerStore_special_refill(st) ==
    IF Stack_is_empty(st.aux_stack) \/ st.raised THEN st
    ELSE LET p == Stack_pop(st.aux_stack)
             a == Queue_append(st.layers, p.item)
         IN  AdditiveLayerStore_special_refill(
                 [layers |-> a.queue, aux_stack |-> p.stack,
                  raised |-> p.raised \/ a.raised])

AdditiveLayerStore_special(self) ==
    LET st == AdditiveLayerStore_special_refill(
                  AdditiveLayerStore_special_drain(
                      [layers |-> self.layers,
                       aux_stack |-> ArrayStack(Queue_len(self.layers)),
                       raised |-> FALSE]))
    IN  [store |-> [self EXCEPT !.layers = st.layers], ret |-> None,
         raised |-> st.raised]

(***************************************************************************)
(* layer_store.py: SequenceLayerStore.                                     *)
(***************************************************************************)
SequenceLayerStore == [cls |-> "SequenceLayerStore", layers |-> BSet]

\* A faulty add: the index is looked up after it was added.
SequenceLayerStore_add_looks_up_late(self, layer) ==
    LET index == layer.index + 1
        added == BSet_add(self.layers, index)
    IN  [store |-> [self EXCEPT !.layers = added],
         ret |-> ~BSet_contains(added, index), raised |-> FALSE]

SequenceLayerStore_add(self, layer) ==
    LET index == layer.index + 1
        flag == ~BSet_contains(self.layers, index)
    IN  [store |-> [self EXCEPT !.layers = BSet_add(@, index)], ret |-> flag,
         raised |-> FALSE]

\* A faulty loop: the layers are applied from the highest index down.
RECURSIVE SequenceLayerStore_get_color_loop_descending(_, _, _, _, _, _)
SequenceLayerStore_get_color_loop_descending(self, colour, index, timestamp, x, y) ==
    IF index > Len(get_layers) THEN colour
    ELSE LET rest == SequenceLayerStore_get_color_loop_descending(
                         self, colour, index + 1, timestamp, x, y)
         IN  IF BSet_contains(self.layers, index)
             THEN apply(get_layers[index], rest, timestamp, x, y)
             ELSE rest

\* for index in range(1, len(get_layers()) + 1), from `index` on.
RECURSIVE SequenceLayerStore_get_color_loop(_, _, _, _, _, _)
SequenceLayerStore_get_color_loop(self, colour, index, timestamp, x, y) ==
    IF index > Len(get_layers) THEN colour
    ELSE SequenceLayerStore_get_color_loop(
             self,
             IF BSet_contains(self.layers, index)
             THEN apply(get_layers[index], colour, timestamp, x, y)
             ELSE colour,
             index + 1, timestamp, x, y)

SequenceLayerStore_get_color(self, start, timestamp, x, y) ==
    [store |-> self,
     ret |-> SequenceLayerStore_get_color_loop(self, start, 1, timestamp, x, y),
     raised |-> FALSE]

SequenceLayerStore_erase(self, layer) ==
    LET index == layer.index + 1
        r == BSet_remove(self.layers, index)
    IN  IF r.raised
        THEN [store |-> self, ret |-> FALSE, raised |-> FALSE]
        ELSE [store |-> [self EXCEPT !.layers = r.set], ret |-> TRUE,
              raised |-> FALSE]

\* The sorted list of (index, name) of the present indices from `index` on.
RECURSIVE SequenceLayerStore_special_loop(_, _, _)
SequenceLayerStore_special_loop(self, sorted_layer_names, index) ==
    IF index > Len(get_layers) THEN sorted_layer_names
    ELSE SequenceLayerStore_special_loop(
             self,
             IF BSet_contains(self.layers, index)
             THEN SortedList_add(sorted_layer_names,
                                 ListItem(index, get_layers[index].name))
             ELSE sorted_layer_names,
             index + 1)

\* A faulty special: the median is taken over the indices, not the names.
SequenceLayerStore_special_by_index(self) ==
    IF self.layers = {} THEN [store |-> self, ret |-> None, raised |-> FALSE]
    ELSE LET median == CHOOSE m \in self.layers :
                           Cardinality({i \in self.layers : i < m}) =
                               (Cardinality(self.layers) - 1) \div 2
         IN  [store |-> [self EXCEPT !.layers = @ \ {median}], ret |-> None,
              raised |-> FALSE]

SequenceLayerStore_special(self) ==
    LET sorted_layer_names ==
            SequenceLayerStore_special_loop(self, ArraySortedList, 1)
    IN  IF Len(sorted_layer_names) > 0
        THEN LET r == BSet_remove(
                          self.layers,
                          sorted_layer_names[
                              ((Len(sorted_layer_names) - 1) \div 2) + 1].value)
             IN  [store |-> [self EXCEPT !.layers = r.set], ret |-> None,
                  raised |-> r.raised]
        ELSE [store |-> self, ret |-> None, raised |-> FALSE]

(***************************************************************************)
(* layer_store.py: LayerStore, the interface the Grid's cells are used by. *)
(***************************************************************************)
LayerStore_add(self, layer) ==
    CASE self.cls = "SetLayerStore" -> SetLayerStore_add(self, layer)
      [] self.cls = "AdditiveLayerStore" -> AdditiveLayerStore_add(self, layer)
      [] OTHER -> SequenceLayerStore_add(self, layer)

LayerStore_erase(self, layer) ==
    CASE self.cls = "SetLayerStore" -> SetLayerStore_erase(self, layer)
      [] self.cls = "AdditiveLayerStore" -> AdditiveLayerStore_erase(self, layer)
      [] OTHER -> SequenceLayerStore_erase(self, layer)

LayerStore_special(self) ==
    CASE self.cls = "SetLayerStore" -> SetLayerStore_special(self)
      [] self.cls = "AdditiveLayerStore" -> AdditiveLayerStore_special(self)
      [] OTHER -> SequenceLayerStore_special(self)

LayerStore_get_color(self, start, timestamp, x, y) ==
    CASE self.cls = "SetLayerStore" ->
             SetLayerStore_get_color(self, start, timestamp, x, y)
      [] self.cls = "AdditiveLayerStore" ->
             AdditiveLayerStore_get_color(self, start, timestamp, x, y)
      [] OTHER -> SequenceLayerStore_get_color(self, start, timestamp, x, y)

(***************************************************************************)
(* grid.py: Grid.                                                          *)
(***************************************************************************)
DRAW_STYLE_SET == "SET"

DRAW_STYLE_ADD == "ADD"

DRAW_STYLE_SEQUENCE == "SEQUENCE"

DRAW_STYLE_OPTIONS == {DRAW_STYLE_SET, DRAW_STYLE_ADD, DRAW_STYLE_SEQUENCE}

DEFAULT_BRUSH_SIZE == 2

MAX_BRUSH == 5

MIN_BRUSH == 0

\* A faulty __init__: one store is constructed and every cell refers to it.
Grid_one_store(draw_style, x, y) ==
    [draw_style |-> draw_style, x |-> x, y |-> y,
     brush_size |-> DEFAULT_BRUSH_SIZE,
     grid |-> [i \in 0..(x - 1) |-> [j \in 0..(y - 1) |-> 0]],
     objects |-> [ref \in 0..(x * y - 1) |->
                  IF draw_style = DRAW_STYLE_SET THEN SetLayerStore
                  ELSE IF draw_style = DRAW_STYLE_ADD THEN AdditiveLayerStore
                  ELSE SequenceLayerStore]]

\* self.grid[i][j] holds a reference to a LayerStore object and `objects` is
\* the state of the objects referred to: the constructor call made in the
\* loop body gives each cell an object of its own, numbered in the order the
\* loop makes them.
Grid(draw_style, x, y) ==
    [draw_style |-> draw_style, x |-> x, y |-> y,
     brush_size |-> DEFAULT_BRUSH_SIZE,
     grid |-> [i \in 0..(x - 1) |-> [j \in 0..(y - 1) |-> i * y + j]],
     objects |-> [ref \in 0..(x * y - 1) |->
                  IF draw_style = DRAW_STYLE_SET THEN SetLayerStore
                  ELSE IF draw_style = DRAW_STYLE_ADD THEN AdditiveLayerStore
                  ELSE SequenceLayerStore]]

\* A faulty increase_brush_size: the size is not capped.
Grid_increase_brush_size_uncapped(self) ==
    [self EXCEPT !.brush_size = self.brush_size + 1]

Grid_increase_brush_size(self) ==
    [self EXCEPT !.brush_size = Min(self.brush_size + 1, MAX_BRUSH)]

Grid_decrease_brush_size(self) ==
    [self EXCEPT !.brush_size = Max(self.brush_size - 1, MIN_BRUSH)]

\* self.grid[i][j].special() for i in range(self.x), j in range(self.y), from
\* the k-th cell of that order on; an exception ends the loops.
RECURSIVE Grid_special_loop(_, _)
Grid_special_loop(self, k) ==
    IF k >= self.x * self.y THEN [grid |-> self, raised |-> FALSE]
    ELSE LET i == k \div self.y
             j == k % self.y
             ref == self.grid[i][j]
             r == LayerStore_special(self.objects[ref])
             done == [self EXCEPT !.objects[ref] = r.store]
         IN  IF r.raised THEN [grid |-> done, raised |-> TRUE]
             ELSE Grid_special_loop(done, k + 1)

\* A faulty special: the loops start after the first row.
Grid_special_skips_row(self) == Grid_special_loop(self, self.y)

Grid_special(self) == Grid_special_loop(self, 0)

\* The state of the store the cell (i, j) refers to.
Grid_store(self, i, j) == self.objects[self.grid[i][j]]

\* grid[index]: the row, or the backing array's IndexError.
Grid_getitem(self, index) ==
    IF index \in DOMAIN self.grid
    THEN [row |-> self.grid[index], raised |-> FALSE]
    ELSE [row |-> None, raised |-> TRUE]

\* grid[x][y]: the reference the cell holds, with the IndexError of either
\* array.
Grid_cell(self, x, y) ==
    LET r == Grid_getitem(self, x)
    IN  IF r.raised THEN [cell |-> None, raised |-> TRUE]
        ELSE IF y \in DOMAIN r.row THEN [cell |-> r.row[y], raised |-> FALSE]
        ELSE [cell |-> None, raised |-> TRUE]

(***************************************************************************)
(* action.py: a PaintAction is a special action or a list of PaintSteps,   *)
(* each the add (redo) or the erase (undo) of a layer on one cell.         *)
(***************************************************************************)
PaintStep(x, y, layer) == [x |-> x, y |-> y, layer |-> layer]

PaintAction(steps, is_special) == [steps |-> steps, is_special |-> is_special]

PaintStep_apply(step, is_undo, g) ==
    LET c == Grid_cell(g, step.x, step.y)
    IN  IF c.raised THEN [grid |-> g, raised |-> TRUE]
        ELSE LET r == IF is_undo
                      THEN LayerStore_erase(g.objects[c.cell], step.layer)
                      ELSE LayerStore_add(g.objects[c.cell], step.layer)
             IN  [grid |-> [g EXCEPT !.objects[c.cell] = r.store],
                  raised |-> r.raised]

RECURSIVE PaintAction_steps(_, _, _)
PaintAction_steps(steps, is_undo, g) ==
    IF Len(steps) = 0 THEN [grid |-> g, raised |-> FALSE]
    ELSE LET r == PaintStep_apply(Head(steps), is_undo, g)
         IN  IF r.raised THEN r
             ELSE PaintAction_steps(Tail(steps), is_undo, r.grid)

PaintAction_undo_apply(action, g) ==
    IF action.is_special THEN Grid_special(g)
    ELSE PaintAction_steps(action.steps, TRUE, g)

PaintAction_redo_apply(action, g) ==
    IF action.is_special THEN Grid_special(g)
    ELSE PaintAction_steps(action.steps, FALSE, g)

(***************************************************************************)
(* replay.py: ReplayTracker.                                               *)
(***************************************************************************)
ReplayTracker == [action_queue |-> CircularQueue(ReplayCapacity)]

\* A faulty add_action: no is_full check, so append raises on a full queue.
add_action_unchecked(self, action, is_undo) ==
    LET a == Queue_append(self.action_queue, <<action, is_undo>>)
    IN  [tracker |-> [self EXCEPT !.action_queue = a.queue], raised |-> a.raised]

\* A faulty add_action: is_undo is not stored with the action.
add_action_drops_is_undo(self, action, is_undo) ==
    IF ~Queue_is_full(self.action_queue)
    THEN LET a == Queue_append(self.action_queue, <<action, FALSE>>)
         IN  [tracker |-> [self EXCEPT !.action_queue = a.queue],
              raised |-> a.raised]
    ELSE [tracker |-> self, raised |-> FALSE]

add_action(self, action, is_undo) ==
    IF ~Queue_is_full(self.action_queue)
    THEN LET a == Queue_append(self.action_queue, <<action, is_undo>>)
         IN  [tracker |-> [self EXCEPT !.action_queue = a.queue],
              raised |-> a.raised]
    ELSE [tracker |-> self, raised |-> FALSE]

\* A faulty play_next_action: undo_apply and redo_apply are swapped.
play_next_action_swapped(self, g) ==
    LET s == Queue_serve(self.action_queue)
    IN  IF s.raised
        THEN [tracker |-> self, grid |-> g, ret |-> TRUE, raised |-> FALSE,
              called |-> "none", action |-> None]
        ELSE LET action == s.item[1]
                 is_undo == s.item[2]
                 r == IF is_undo THEN PaintAction_redo_apply(action, g)
                      ELSE PaintAction_undo_apply(action, g)
             IN  [tracker |-> [self EXCEPT !.action_queue = s.queue],
                  grid |-> r.grid,
                  ret |-> IF r.raised THEN TRUE ELSE FALSE,
                  raised |-> FALSE,
                  called |-> IF is_undo THEN "redo_apply" ELSE "undo_apply",
                  action |-> action]

\* The try block: serve, then undo_apply or redo_apply; any exception raised
\* in it, by serve or by the action, ends in the except branch: return True.
play_next_action(self, g) ==
    LET s == Queue_serve(self.action_queue)
    IN  IF s.raised
        THEN [tracker |-> self, grid |-> g, ret |-> TRUE, raised |-> FALSE,
              called |-> "none", action |-> None]
        ELSE LET action == s.item[1]
                 is_undo == s.item[2]
                 r == IF is_undo THEN PaintAction_undo_apply(action, g)
                      ELSE PaintAction_redo_apply(action, g)
             IN  [tracker |-> [self EXCEPT !.action_queue = s.queue],
                  grid |-> r.grid,
                  ret |-> IF r.raised THEN TRUE ELSE FALSE,
                  raised |-> FALSE,
                  called |-> IF is_undo THEN "undo_apply" ELSE "redo_apply",
                  action |-> action]

\* A faulty clear: only the oldest entry is removed.
ReplayTracker_clear_oldest(self) ==
    [self EXCEPT !.action_queue = Queue_serve(self.action_queue).queue]

ReplayTracker_clear(self) ==
    [self EXCEPT !.action_queue = Queue_clear(self.action_queue)]

(***************************************************************************)
(* State.                                                                  *)
(***************************************************************************)
VARIABLES
    tracker,    \* the ReplayTracker
    grid,       \* the Grid the actions are applied to directly
    rgrid,      \* the Grid handed to play_next_action
    store,      \* a LayerStore used on its own
    last,       \* the last call: its name, its arguments and its result
    accepted,   \* the entries add_action stored, since the tracker was new or cleared
    played,     \* the entries play_next_action served since then, with the method called
    calls       \* the add_action calls made in all

vars == <<tracker, grid, rgrid, store, last, accepted, played, calls>>

\* n: the number of entries the queue or the store held when the call was made.
Call(op, arg, ret, raised, n) ==
    [op |-> op, arg |-> arg, ret |-> ret, raised |-> raised, n |-> n]

NoCall == Call("init", None, None, FALSE, 0)

\* The values last.arg and last.ret hold, each kind a record of its own so
\* that any two of them can be compared.
Bool(b) == [bool |-> b]

Colour(c) == [colour |-> c]

Entry(action, is_undo) == [action |-> action, is_undo |-> is_undo]

Query(start, timestamp, x, y) ==
    [start |-> start, timestamp |-> timestamp, x |-> x, y |-> y]

(***************************************************************************)
(* The actions a tracker is given.  A step outside the grid makes the      *)
(* action raise the grid's IndexError when it is applied.                  *)
(***************************************************************************)
SpecialAction == PaintAction(<<>>, TRUE)

DrawAction == PaintAction(<<PaintStep(0, 0, get_layers[1])>>, FALSE)

DrawTwoAction ==
    PaintAction(<<PaintStep(GridX - 1, GridY - 1, get_layers[NumLayers]),
                  PaintStep(0, 0, get_layers[NumLayers])>>, FALSE)

OutsideAction ==
    PaintAction(<<PaintStep(0, 0, get_layers[1]),
                  PaintStep(GridX, 0, get_layers[1])>>, FALSE)

GridActions == {SpecialAction, DrawAction, DrawTwoAction}

AnyActions == GridActions \cup {OutsideAction}

(***************************************************************************)
(* ReplayTracker on its own: add_action, play_next_action, clear.          *)
(***************************************************************************)
InitTracker ==
    /\ tracker = ReplayTracker
    /\ \E draw_style \in DRAW_STYLE_OPTIONS :
          /\ grid = Grid(draw_style, GridX, GridY)
          /\ rgrid = Grid(draw_style, GridX, GridY)
    /\ store = None
    /\ last = NoCall
    /\ accepted = <<>>
    /\ played = <<>>
    /\ calls = 0

\* start_replay is `pass`.
StartReplay == UNCHANGED vars

AddAction(action, is_undo) ==
    /\ calls < MaxCalls
    /\ LET r == add_action(tracker, action, is_undo)
       IN  /\ tracker' = r.tracker
           /\ accepted' = IF r.tracker # tracker
                          THEN Append(accepted, <<action, is_undo>>)
                          ELSE accepted
           /\ last' = Call("add_action", Entry(action, is_undo), None, r.raised,
                           Queue_len(tracker.action_queue))
    /\ calls' = calls + 1
    /\ UNCHANGED <<grid, rgrid, store, played>>

PlayNextAction ==
    /\ LET r == play_next_action(tracker, rgrid)
       IN  /\ tracker' = r.tracker
           /\ rgrid' = r.grid
           /\ played' = IF r.called # "none"
                        THEN Append(played, [action |-> r.action, called |-> r.called])
                        ELSE played
           /\ last' = Call("play_next_action", None, Bool(r.ret), r.raised,
                           Queue_len(tracker.action_queue))
    /\ UNCHANGED <<grid, store, accepted, calls>>

Clear ==
    /\ tracker' = ReplayTracker_clear(tracker)
    /\ accepted' = <<>>
    /\ played' = <<>>
    /\ last' = Call("clear", None, None, FALSE, Queue_len(tracker.action_queue))
    /\ UNCHANGED <<grid, rgrid, store, calls>>

NextTracker ==
    \/ StartReplay
    \/ \E action \in AnyActions : \E is_undo \in BOOLEAN : AddAction(action, is_undo)
    \/ PlayNextAction
    \/ Clear

SpecTracker == InitTracker /\ [][NextTracker]_vars

(***************************************************************************)
(* A run of the application: each action is applied to the grid and added  *)
(* to the tracker; the tracker is played back on a second grid.            *)
(***************************************************************************)
Paint(action, is_undo) ==
    /\ calls < MaxCalls
    /\ LET g == IF is_undo THEN PaintAction_undo_apply(action, grid)
                ELSE PaintAction_redo_apply(action, grid)
           r == add_action(tracker, action, is_undo)
       IN  /\ grid' = g.grid
           /\ tracker' = r.tracker
           /\ accepted' = IF r.tracker # tracker
                          THEN Append(accepted, <<action, is_undo>>)
                          ELSE accepted
           /\ last' = Call("paint", Entry(action, is_undo), None, r.raised,
                           Queue_len(tracker.action_queue))
    /\ calls' = calls + 1
    /\ UNCHANGED <<rgrid, store, played>>

NextRun ==
    \/ \E action \in GridActions : \E is_undo \in BOOLEAN : Paint(action, is_undo)
    \/ PlayNextAction

SpecRun == InitTracker /\ [][NextRun]_vars

(***************************************************************************)
(* A LayerStore on its own: add, erase, special and get_color, on a store  *)
(* of the class the specification constructs.                              *)
(***************************************************************************)
\* The number of layers the store holds.
Size(s) ==
    CASE s.cls = "SetLayerStore" -> IF s.layer = None THEN 0 ELSE 1
      [] s.cls = "AdditiveLayerStore" -> Queue_len(s.layers)
      [] OTHER -> Cardinality(s.layers)

InitStore(new) ==
    /\ store = new
    /\ tracker = ReplayTracker
    /\ grid = None
    /\ rgrid = None
    /\ last = NoCall
    /\ accepted = <<>>
    /\ played = <<>>
    /\ calls = 0

StoreAdd(layer) ==
    /\ LET r == LayerStore_add(store, layer)
       IN  /\ store' = r.store
           /\ last' = Call("add", layer, Bool(r.ret), r.raised, Size(store))
    /\ UNCHANGED <<tracker, grid, rgrid, accepted, played, calls>>

StoreErase(layer) ==
    /\ LET r == LayerStore_erase(store, layer)
       IN  /\ store' = r.store
           /\ last' = Call("erase", layer, Bool(r.ret), r.raised, Size(store))
    /\ UNCHANGED <<tracker, grid, rgrid, accepted, played, calls>>

StoreSpecial ==
    /\ LET r == LayerStore_special(store)
       IN  /\ store' = r.store
           /\ last' = Call("special", None, r.ret, r.raised, Size(store))
    /\ UNCHANGED <<tracker, grid, rgrid, accepted, played, calls>>

StoreGetColor(start, timestamp, x, y) ==
    /\ LET r == LayerStore_get_color(store, start, timestamp, x, y)
       IN  /\ store' = r.store
           /\ last' = Call("get_color", Query(start, timestamp, x, y),
                           Colour(r.ret), r.raised, Size(store))
    /\ UNCHANGED <<tracker, grid, rgrid, accepted, played, calls>>

\* The layers handed to add and erase: any layer of the catalog, and for the
\* queue of the AdditiveLayerStore its first and its last layer.
StoreLayers ==
    IF store.cls = "AdditiveLayerStore"
    THEN {get_layers[1], get_layers[NumLayers]}
    ELSE Layers

NextStore ==
    \/ \E layer \in StoreLayers : StoreAdd(layer)
    \/ \E layer \in StoreLayers : StoreErase(layer)
    \/ StoreSpecial
    \/ \E start \in StartColours : \E timestamp \in Timestamps :
          \E pos \in Positions : StoreGetColor(start, timestamp, pos[1], pos[2])

SpecSet == InitStore(SetLayerStore) /\ [][NextStore]_vars

SpecAdditive == InitStore(AdditiveLayerStore) /\ [][NextStore]_vars

SpecSequence == InitStore(SequenceLayerStore) /\ [][NextStore]_vars

(***************************************************************************)
(* A Grid on its own: the brush size, Grid.special, and add, erase, special *)
(* and get_color on the store of a cell, reached as grid[x][y].             *)
(***************************************************************************)
\* The arguments of a call on a cell, as last.arg holds them.
Cell(x, y) == [x |-> x, y |-> y]

CellLayer(x, y, layer) == [x |-> x, y |-> y, layer |-> layer]

\* The layers handed to add and erase on a cell.
CellLayers == {get_layers[1], get_layers[NumLayers]}

\* The cells of a grid of the model's dimensions.
Cells == (0..(GridX - 1)) \X (0..(GridY - 1))

InitGrid ==
    /\ \E draw_style \in DRAW_STYLE_OPTIONS :
          grid = Grid(draw_style, GridX, GridY)
    /\ rgrid = None
    /\ tracker = ReplayTracker
    /\ store = None
    /\ last = NoCall
    /\ accepted = <<>>
    /\ played = <<>>
    /\ calls = 0

\* n: the brush size when the call was made.
IncreaseBrushSize ==
    /\ grid' = Grid_increase_brush_size(grid)
    /\ last' = Call("increase_brush_size", None, None, FALSE, grid.brush_size)
    /\ UNCHANGED <<tracker, rgrid, store, accepted, played, calls>>

DecreaseBrushSize ==
    /\ grid' = Grid_decrease_brush_size(grid)
    /\ last' = Call("decrease_brush_size", None, None, FALSE, grid.brush_size)
    /\ UNCHANGED <<tracker, rgrid, store, accepted, played, calls>>

\* n: the number of cells of the grid.
GridSpecial ==
    /\ calls < MaxCellCalls
    /\ LET r == Grid_special(grid)
       IN  /\ grid' = r.grid
           /\ last' = Call("special", None, None, r.raised, grid.x * grid.y)
    /\ calls' = calls + 1
    /\ UNCHANGED <<tracker, rgrid, store, accepted, played>>

\* grid[x][y].add(layer)
CellAdd(x, y, layer) ==
    /\ calls < MaxCellCalls
    /\ LET c == Grid_cell(grid, x, y)
           r == LayerStore_add(grid.objects[c.cell], layer)
       IN  /\ ~c.raised
           /\ grid' = [grid EXCEPT !.objects[c.cell] = r.store]
           /\ last' = Call("cell_add", CellLayer(x, y, layer), Bool(r.ret),
                           r.raised, Size(grid.objects[c.cell]))
    /\ calls' = calls + 1
    /\ UNCHANGED <<tracker, rgrid, store, accepted, played>>

\* grid[x][y].erase(layer)
CellErase(x, y, layer) ==
    /\ calls < MaxCellCalls
    /\ LET c == Grid_cell(grid, x, y)
           r == LayerStore_erase(grid.objects[c.cell], layer)
       IN  /\ ~c.raised
           /\ grid' = [grid EXCEPT !.objects[c.cell] = r.store]
           /\ last' = Call("cell_erase", CellLayer(x, y, layer), Bool(r.ret),
                           r.raised, Size(grid.objects[c.cell]))
    /\ calls' = calls + 1
    /\ UNCHANGED <<tracker, rgrid, store, accepted, played>>

\* grid[x][y].special()
CellSpecial(x, y) ==
    /\ calls < MaxCellCalls
    /\ LET c == Grid_cell(grid, x, y)
           r == LayerStore_special(grid.objects[c.cell])
       IN  /\ ~c.raised
           /\ grid' = [grid EXCEPT !.objects[c.cell] = r.store]
           /\ last' = Call("cell_special", Cell(x, y), None, r.raised,
                           Size(grid.objects[c.cell]))
    /\ calls' = calls + 1
    /\ UNCHANGED <<tracker, rgrid, store, accepted, played>>

\* grid[x][y].get_color(start, timestamp, x, y)
CellGetColor(start, timestamp, x, y) ==
    /\ LET c == Grid_cell(grid, x, y)
           r == LayerStore_get_color(grid.objects[c.cell], start, timestamp, x, y)
       IN  /\ ~c.raised
           /\ grid' = [grid EXCEPT !.objects[c.cell] = r.store]
           /\ last' = Call("cell_get_color", Query(start, timestamp, x, y),
                           Colour(r.ret), r.raised, Size(grid.objects[c.cell]))
    /\ UNCHANGED <<tracker, rgrid, store, accepted, played, calls>>

NextGrid ==
    \/ IncreaseBrushSize
    \/ DecreaseBrushSize
    \/ GridSpecial
    \/ \E pos \in Positions : \E layer \in CellLayers :
          CellAdd(pos[1], pos[2], layer)
    \/ \E pos \in Positions : \E layer \in CellLayers :
          CellErase(pos[1], pos[2], layer)
    \/ \E pos \in Positions : CellSpecial(pos[1], pos[2])
    \/ \E pos \in Positions : \E start \in StartColours :
          CellGetColor(start, 0, pos[1], pos[2])

SpecGrid == InitGrid /\ [][NextGrid]_vars

(***************************************************************************)
(* Claims on the ReplayTracker.  Every action but start_replay, which      *)
(* changes nothing, writes its name to last.op: a step with                *)
(* last'.op = "clear" that changes the state is a clear call, and the      *)
(* unprimed variables are the state the call was made in.                  *)
(***************************************************************************)
\* C1: since the tracker was new or cleared, the k-th play_next_action call
\* that found an entry played the k-th entry add_action stored, with
\* undo_apply when it was stored with is_undo and redo_apply otherwise; the
\* queue holds exactly the stored entries not played yet, in order.
C1_ReplayIsFifo ==
    /\ Len(played) <= Len(accepted)
    /\ \A k \in 1..Len(played) :
          /\ played[k].action = accepted[k][1]
          /\ played[k].called =
                 IF accepted[k][2] THEN "undo_apply" ELSE "redo_apply"
    /\ tracker.action_queue.items =
           SubSeq(accepted, Len(played) + 1, Len(accepted))

\* Three entries played, more than the queue holds at once, a redo first and
\* an undo last.
C1_Witness ==
    /\ Len(played) > ReplayCapacity
    /\ played[1].called = "redo_apply"
    /\ played[Len(played)].called = "undo_apply"
    /\ played[1].action # played[2].action

\* C2: play_next_action returns True exactly when the queue was empty, and
\* then changes neither the grid nor the queue; with an entry in the queue it
\* removes one entry, applies it to the grid and returns False.
C2_PlayReturnsTrueIffEmpty ==
    [][last'.op = "play_next_action" =>
        LET q == tracker.action_queue
            entry == Head(q.items)
            applied == IF entry[2] THEN PaintAction_undo_apply(entry[1], rgrid)
                       ELSE PaintAction_redo_apply(entry[1], rgrid)
        IN  /\ (last'.ret = Bool(TRUE)) <=> Queue_is_empty(q)
            /\ Queue_is_empty(q) => (rgrid' = rgrid /\ tracker' = tracker)
            /\ ~Queue_is_empty(q) =>
                  /\ tracker'.action_queue.items = Tail(q.items)
                  /\ rgrid' = applied.grid
                  /\ ~applied.raised
                  /\ last'.ret = Bool(FALSE)]_vars

\* C3: the queue never holds more than its capacity; add_action raises
\* nothing, appends the pair at the tail of a queue below capacity and leaves
\* a full queue as it is.
C3_AddActionBounded ==
    /\ [](Queue_len(tracker.action_queue) <= ReplayCapacity)
    /\ [][last'.op = "add_action" =>
            /\ ~last'.raised
            /\ IF Queue_len(tracker.action_queue) < ReplayCapacity
               THEN tracker'.action_queue.items =
                        Append(tracker.action_queue.items,
                               <<last'.arg.action, last'.arg.is_undo>>)
               ELSE tracker' = tracker]_vars

\* add_action was called on a full queue with an entry other than its tail.
C3_Witness ==
    /\ last.op = "add_action"
    /\ last.n = ReplayCapacity
    /\ Queue_len(tracker.action_queue) = ReplayCapacity
    /\ tracker.action_queue.items[ReplayCapacity] #
           <<last.arg.action, last.arg.is_undo>>

\* C4: clear leaves the queue empty and changes no grid; a play_next_action
\* that follows it directly returns True and applies nothing.
C4_ClearEmptiesQueue ==
    /\ [][last'.op = "clear" =>
            /\ tracker'.action_queue.items = <<>>
            /\ rgrid' = rgrid
            /\ grid' = grid]_vars
    /\ [][(last.op = "clear" /\ last'.op = "play_next_action") =>
            /\ last'.ret = Bool(TRUE)
            /\ rgrid' = rgrid
            /\ tracker' = tracker]_vars

\* clear was called on a full queue.
C4_Witness ==
    /\ last.op = "clear"
    /\ last.n = ReplayCapacity
    /\ Queue_is_empty(tracker.action_queue)

\* C5 as stated: whenever the queue has been drained, every cell of the
\* replay grid is in the state of the same cell of the painted grid.
C5_ReplayReproducesRun ==
    Queue_is_empty(tracker.action_queue) => \A i \in 0..(GridX - 1) : \A j \in 0..(GridY - 1) :
               Grid_store(rgrid, i, j) = Grid_store(grid, i, j)

\* C5 as amended: the same, provided every add_action call found the queue
\* below its capacity (every call stored its entry).
C5_ReplayReproducesStoredRun ==
    (Queue_is_empty(tracker.action_queue) /\ Len(accepted) = calls)
        => \A i \in 0..(GridX - 1) : \A j \in 0..(GridY - 1) :
               Grid_store(rgrid, i, j) = Grid_store(grid, i, j)

\* Every painted action was stored and played, and the grids are not new.
C5_Witness ==
    /\ Queue_is_empty(tracker.action_queue)
    /\ Len(accepted) = calls
    /\ Len(played) = MaxCalls
    /\ rgrid.objects # Grid(rgrid.draw_style, GridX, GridY).objects
    /\ \E k \in 1..Len(played) : played[k].called = "undo_apply"

(***************************************************************************)
(* Claims on the AdditiveLayerStore (under SpecAdditive).                  *)
(***************************************************************************)
AdditiveCapacity == LayersPerEntry * NumLayers

Reverse(seq) == [k \in 1..Len(seq) |-> seq[Len(seq) + 1 - k]]

\* The start colour taken through the layers' apply, first layer first.
RECURSIVE FoldOldestFirst(_, _, _, _, _)
FoldOldestFirst(layers, colour, timestamp, x, y) ==
    IF layers = <<>> THEN colour
    ELSE FoldOldestFirst(Tail(layers),
                         apply(Head(layers), colour, timestamp, x, y),
                         timestamp, x, y)

\* C6: the store never holds more than its capacity; add on a store below
\* capacity appends the layer at the tail and returns True, add on a full
\* store returns False and leaves the store as it is.
C6_AdditiveAddBounded ==
    /\ [](Queue_len(store.layers) <= AdditiveCapacity)
    /\ [][last'.op = "add" =>
            /\ ~last'.raised
            /\ IF Queue_len(store.layers) < AdditiveCapacity
               THEN /\ store'.layers.items = Append(store.layers.items, last'.arg)
                    /\ last'.ret = Bool(TRUE)
               ELSE /\ store' = store
                    /\ last'.ret = Bool(FALSE)]_vars

\* add was refused on a full store.
C6_Witness ==
    /\ last.op = "add"
    /\ last.n = AdditiveCapacity
    /\ last.ret = Bool(FALSE)
    /\ Queue_len(store.layers) = AdditiveCapacity

\* C7: get_color returns the start colour folded through the stored layers,
\* oldest first, and leaves the store holding the same layers in the same
\* order, whatever the number of layers stored.
C7_AdditiveGetColorFolds ==
    [][last'.op = "get_color" =>
        /\ ~last'.raised
        /\ store' = store
        /\ last'.ret = Colour(FoldOldestFirst(store.layers.items,
                                              last'.arg.start, last'.arg.timestamp,
                                              last'.arg.x, last'.arg.y))]_vars

\* get_color was called on a full store that holds different layers.
C7_Witness ==
    /\ last.op = "get_color"
    /\ last.n = AdditiveCapacity
    /\ store.layers.items[1] # store.layers.items[AdditiveCapacity]
    /\ Len(last.ret.colour) = AdditiveCapacity + 1

\* C8: special replaces the stored sequence by its reverse and raises
\* nothing, whatever the number of layers stored; special called twice
\* leaves the store as it was.
C8_AdditiveSpecialReverses ==
    /\ [][last'.op = "special" =>
            /\ ~last'.raised
            /\ store'.layers.items = Reverse(store.layers.items)
            /\ store'.layers.capacity = store.layers.capacity]_vars
    /\ [](LET once == AdditiveLayerStore_special(store)
              twice == AdditiveLayerStore_special(once.store)
          IN  ~once.raised /\ ~twice.raised /\ twice.store = store)

\* special was called on a full store whose order the reversal changes.
C8_Witness ==
    /\ last.op = "special"
    /\ last.n = AdditiveCapacity
    /\ store.layers.items # Reverse(store.layers.items)

\* C9: erase on a store that holds layers removes the oldest one, whatever
\* layer is passed, and returns True; on an empty store it returns False,
\* raises nothing and changes nothing.
C9_AdditiveEraseOldest ==
    [][last'.op = "erase" =>
        /\ ~last'.raised
        /\ IF store.layers.items # <<>>
           THEN /\ store'.layers.items = Tail(store.layers.items)
                /\ store'.layers.capacity = store.layers.capacity
                /\ last'.ret = Bool(TRUE)
           ELSE /\ store' = store
                /\ last'.ret = Bool(FALSE)]_vars

\* erase on a full store left its newest layer, the layer that was passed.
C9_Witness ==
    /\ last.op = "erase"
    /\ last.ret = Bool(TRUE)
    /\ last.n = AdditiveCapacity
    /\ Queue_len(store.layers) = AdditiveCapacity - 1
    /\ store.layers.items[Queue_len(store.layers)] = last.arg

(***************************************************************************)
(* Claims on the SetLayerStore (under SpecSet).                            *)
(***************************************************************************)
\* C10: add leaves the store holding the layer given, and returns True
\* exactly when that layer is not the layer held before (no layer held
\* counts as another layer).
C10_SetAddReplaces ==
    [][last'.op = "add" =>
        /\ ~last'.raised
        /\ store'.layer = last'.arg
        /\ (last'.ret = Bool(TRUE)) <=> (last'.arg # store.layer)]_vars

\* The layer already held was added again: add returned False.
C10_Witness ==
    /\ last.op = "add"
    /\ last.n = 1
    /\ last.ret = Bool(FALSE)
    /\ store.layer = last.arg

\* C11: erase leaves the store holding no layer, whatever layer is passed,
\* and returns True exactly when a layer was held; on a store holding no
\* layer it returns False, raises nothing and changes nothing.
C11_SetEraseClears ==
    [][last'.op = "erase" =>
        /\ ~last'.raised
        /\ store'.layer = None
        /\ (last'.ret = Bool(TRUE)) <=> (store.layer # None)
        /\ store.layer = None => (store' = store /\ last'.ret = Bool(FALSE))]_vars

\* erase removed a held layer when given another layer of the catalog.
C11_Witness ==
    /\ last.op = "erase"
    /\ last.n = 1
    /\ last.ret = Bool(TRUE)
    /\ store.layer = None
    /\ last.arg = get_layers[NumLayers]
    /\ SetLayerStore_add(store, get_layers[1]).ret

\* The colour C12 gives for get_color: the held layer's apply (the start
\* colour when no layer is held), then invert's apply when the flag is set.
SetColour(self, start, timestamp, x, y) ==
    LET held == IF self.layer = None THEN start
                ELSE apply(self.layer, start, timestamp, x, y)
    IN  IF self.on_special THEN apply(invert, held, timestamp, x, y) ELSE held

\* C12: special negates on_special and changes nothing else; special called
\* twice gives back the store, and so the value of get_color for every start
\* colour, timestamp and position; get_color returns SetColour and leaves the
\* store as it is.
C12_SetSpecialToggles ==
    /\ [][last'.op = "special" =>
            /\ ~last'.raised
            /\ store'.on_special = ~store.on_special
            /\ store'.layer = store.layer]_vars
    /\ [](LET twice == SetLayerStore_special(SetLayerStore_special(store).store).store
          IN  /\ twice = store
              /\ \A start \in StartColours : \A timestamp \in Timestamps :
                    \A pos \in Positions :
                       SetLayerStore_get_color(twice, start, timestamp, pos[1], pos[2]).ret
                           = SetLayerStore_get_color(store, start, timestamp, pos[1], pos[2]).ret)
    /\ [][last'.op = "get_color" =>
            /\ ~last'.raised
            /\ store' = store
            /\ last'.ret = Colour(SetColour(store, last'.arg.start,
                                            last'.arg.timestamp,
                                            last'.arg.x, last'.arg.y))]_vars

\* special switched the flag off again on a store that holds a layer.
C12_Witness ==
    /\ last.op = "special"
    /\ ~store.on_special
    /\ store.layer # None

\* C19: add and erase leave on_special as it is; special leaves the layer
\* held as it is, and with it the value add and erase return for any layer.
C19_SetLayerAndFlagIndependent ==
    /\ [][last'.op \in {"add", "erase"} =>
            store'.on_special = store.on_special]_vars
    /\ [][last'.op = "special" =>
            /\ store'.layer = store.layer
            /\ \A layer \in Layers :
                  /\ SetLayerStore_add(store', layer).ret =
                         SetLayerStore_add(store, layer).ret
                  /\ SetLayerStore_erase(store', layer).ret =
                         SetLayerStore_erase(store, layer).ret]_vars

\* erase removed the layer of a store whose flag is set, and the flag is set.
C19_Witness ==
    /\ last.op = "erase"
    /\ last.ret = Bool(TRUE)
    /\ store.on_special
    /\ store.layer = None

(***************************************************************************)
(* Claims on the SequenceLayerStore (under SpecSequence).  The catalog     *)
(* index i is present when i + 1 is in the store's set.                    *)
(***************************************************************************)
\* C13: the set holds catalog indices only; add makes the layer's index
\* present and returns True exactly when it was absent; erase makes it absent
\* and returns True exactly when it was present; neither raises, and neither
\* changes the presence of another index.
C13_SequenceAddErase ==
    /\ [](store.layers \subseteq 1..NumLayers)
    /\ [][last'.op = "add" =>
            LET index == last'.arg.index + 1
            IN  /\ ~last'.raised
                /\ store'.layers = store.layers \cup {index}
                /\ (last'.ret = Bool(TRUE)) <=> (index \notin store.layers)]_vars
    /\ [][last'.op = "erase" =>
            LET index == last'.arg.index + 1
            IN  /\ ~last'.raised
                /\ store'.layers = store.layers \ {index}
                /\ (last'.ret = Bool(TRUE)) <=> (index \in store.layers)]_vars

\* A layer was added to a store that held every layer: add returned False.
C13_Witness ==
    /\ last.op = "add"
    /\ last.n = NumLayers
    /\ last.ret = Bool(FALSE)
    /\ store.layers = 1..NumLayers

\* The number of indices of the set whose layer's name is before that of m.
NamesBefore(set, m) ==
    Cardinality({i \in set : StrLess(get_layers[i].name, get_layers[m].name)})

\* C14: special on a store with count >= 1 indices removes exactly the index
\* with (count - 1) // 2 names of the set before its own; on an empty store
\* it changes nothing; it never raises.
C14_SequenceSpecialRemovesMedian ==
    [][last'.op = "special" =>
        /\ ~last'.raised
        /\ IF store.layers = {}
           THEN store' = store
           ELSE \E m \in store.layers :
                   /\ NamesBefore(store.layers, m) =
                          (Cardinality(store.layers) - 1) \div 2
                   /\ store'.layers = store.layers \ {m}]_vars

\* special was called with every layer present and removed an index that is
\* not the median of the indices.
C14_Witness ==
    /\ last.op = "special"
    /\ last.n = NumLayers
    /\ \E m \in 1..NumLayers :
          /\ store.layers = (1..NumLayers) \ {m}
          /\ Cardinality({i \in 1..NumLayers : i < m}) # (NumLayers - 1) \div 2

\* The start colour taken through the apply of the layers of the set, lowest
\* index first.
RECURSIVE FoldAscending(_, _, _, _, _)
FoldAscending(set, colour, timestamp, x, y) ==
    IF set = {} THEN colour
    ELSE LET lowest == CHOOSE i \in set : \A k \in set : i <= k
         IN  FoldAscending(set \ {lowest},
                           apply(get_layers[lowest], colour, timestamp, x, y),
                           timestamp, x, y)

\* C15: get_color returns FoldAscending of the set, a value of the set
\* alone, raises nothing and leaves the set as it is; two adds, or an add and
\* an erase of another layer, give the same store in either order.
C15_SequenceGetColorByIndex ==
    /\ [][last'.op = "get_color" =>
            /\ ~last'.raised
            /\ store' = store
            /\ last'.ret = Colour(FoldAscending(store.layers, last'.arg.start,
                                                last'.arg.timestamp,
                                                last'.arg.x, last'.arg.y))]_vars
    /\ [](\A a \in Layers : \A b \in Layers \ {a} :
             /\ SequenceLayerStore_add(SequenceLayerStore_add(store, a).store, b).store
                    = SequenceLayerStore_add(SequenceLayerStore_add(store, b).store, a).store
             /\ SequenceLayerStore_erase(SequenceLayerStore_add(store, a).store, b).store
                    = SequenceLayerStore_add(SequenceLayerStore_erase(store, b).store, a).store)

\* get_color was called on a store that holds every layer: the first layer
\* of the catalog was applied first and the last layer last.
C15_Witness ==
    /\ last.op = "get_color"
    /\ last.n = NumLayers
    /\ Len(last.ret.colour) = NumLayers + 1
    /\ last.ret.colour[2][1] = 0
    /\ last.ret.colour[NumLayers + 1][1] = NumLayers - 1

(***************************************************************************)
(* Claims on the Grid (under SpecGrid).                                    *)
(***************************************************************************)
\* Five calls of increase_brush_size and of decrease_brush_size.
Increased5(g) ==
    Grid_increase_brush_size(Grid_increase_brush_size(Grid_increase_brush_size(
        Grid_increase_brush_size(Grid_increase_brush_size(g)))))

Decreased5(g) ==
    Grid_decrease_brush_size(Grid_decrease_brush_size(Grid_decrease_brush_size(
        Grid_decrease_brush_size(Grid_decrease_brush_size(g)))))

\* C16: the brush size of a new grid is 2 and the brush size is always in
\* 0..5; increase_brush_size adds 1 below 5 and changes nothing at 5,
\* decrease_brush_size subtracts 1 above 0 and changes nothing at 0; neither
\* changes anything else of the grid; five increases of a new grid give 5 and
\* five decreases after them give 0.
C16_BrushSizeClamped ==
    /\ grid.brush_size = 2
    /\ [](grid.brush_size \in 0..5)
    /\ [][last'.op = "increase_brush_size" =>
            grid' = [grid EXCEPT !.brush_size =
                         IF grid.brush_size = 5 THEN 5 ELSE grid.brush_size + 1]]_vars
    /\ [][last'.op = "decrease_brush_size" =>
            grid' = [grid EXCEPT !.brush_size =
                         IF grid.brush_size = 0 THEN 0 ELSE grid.brush_size - 1]]_vars
    /\ [](LET new == Grid(grid.draw_style, GridX, GridY)
          IN  /\ Increased5(new).brush_size = 5
              /\ Decreased5(Increased5(new)).brush_size = 0)

\* increase_brush_size was called at size 5, three increases after the
\* grid was new, and left the size at 5.
C16_Witness ==
    /\ last.op = "increase_brush_size"
    /\ last.n = 5
    /\ grid.brush_size = 5

\* C17: Grid.special raises nothing and leaves every cell in the state its
\* own special() gives once, and the references, the dimensions, the draw
\* style and the brush size as they were; on a grid of SetLayerStores every
\* cell's on_special is negated and its layer kept, and Grid.special called
\* twice gives back the grid.
C17_GridSpecialEveryCellOnce ==
    /\ [][last'.op = "special" =>
            /\ ~last'.raised
            /\ \A c \in Cells :
                  Grid_store(grid', c[1], c[2]) =
                      LayerStore_special(Grid_store(grid, c[1], c[2])).store
            /\ grid' = [grid EXCEPT !.objects = grid'.objects]
            /\ grid.draw_style = DRAW_STYLE_SET =>
                  \A c \in Cells :
                     /\ Grid_store(grid', c[1], c[2]).on_special =
                            ~Grid_store(grid, c[1], c[2]).on_special
                     /\ Grid_store(grid', c[1], c[2]).layer =
                            Grid_store(grid, c[1], c[2]).layer]_vars
    /\ [](grid.draw_style = DRAW_STYLE_SET =>
             Grid_special(Grid_special(grid).grid).grid = grid)

\* Grid.special was called on a grid of SetLayerStores whose corner cells
\* differ in their flag, one of them holding a layer.
C17_Witness ==
    /\ last.op = "special"
    /\ grid.draw_style = DRAW_STYLE_SET
    /\ Grid_store(grid, 0, 0).on_special #
           Grid_store(grid, GridX - 1, GridY - 1).on_special
    /\ \E c \in Cells : Grid_store(grid, c[1], c[2]).layer # None

\* The calls made on the store of one cell.
CellCalls == {"cell_add", "cell_erase", "cell_special", "cell_get_color"}

\* C20: no two cells refer to the same store, and every cell's store is of
\* the class of the grid's draw style; a call on the store of the cell
\* (x, y) leaves every other cell's store, the references, the dimensions
\* and the brush size as they were.
C20_CellsIndependent ==
    /\ [](\A c \in Cells : \A d \in Cells \ {c} :
             grid.grid[c[1]][c[2]] # grid.grid[d[1]][d[2]])
    /\ [](\A c \in Cells :
             Grid_store(grid, c[1], c[2]).cls =
                 IF grid.draw_style = DRAW_STYLE_SET THEN "SetLayerStore"
                 ELSE IF grid.draw_style = DRAW_STYLE_ADD THEN "AdditiveLayerStore"
                 ELSE "SequenceLayerStore")
    /\ [][last'.op \in CellCalls =>
            /\ \A c \in Cells \ {<<last'.arg.x, last'.arg.y>>} :
                  Grid_store(grid', c[1], c[2]) = Grid_store(grid, c[1], c[2])
            /\ grid' = [grid EXCEPT !.objects = grid'.objects]]_vars

\* A layer was added to the first cell of a grid whose last cell had been
\* changed before and is in another state.
C20_Witness ==
    /\ last.op = "cell_add"
    /\ last.ret = Bool(TRUE)
    /\ last.arg.x = 0 /\ last.arg.y = 0
    /\ Grid_store(grid, GridX - 1, GridY - 1) #
           Grid_store(Grid(grid.draw_style, GridX, GridY), GridX - 1, GridY - 1)
    /\ Grid_store(grid, GridX - 1, GridY - 1) # Grid_store(grid, 0, 0)

(***************************************************************************)
(* Replay to the end (under SpecTracker).                                  *)
(***************************************************************************)
\* C18: a play_next_action call on a queue of n >= 1 entries returns False
\* and leaves n - 1 entries; a call on an empty queue returns True and
\* leaves it empty.  So with no add_action in between, the first n calls
\* return False and every later call True.
C18_ReplayTerminates ==
    [][last'.op = "play_next_action" =>
        LET n == Queue_len(tracker.action_queue)
        IN  /\ Queue_len(tracker'.action_queue) = IF n = 0 THEN 0 ELSE n - 1
            /\ last'.ret = Bool(n = 0)]_vars

====
